---- MODULE Spec2Model ----
(***************************************************************************)
(* Bulls and Cows: the guess evaluator, the input validator, the score     *)
(* store and the play/replay loop of src/game_functions.py and src/main.py *)
(*                                                                         *)
(* A Python str is modelled as a sequence of one-character strings, a      *)
(* Python list[str] of digits likewise; the marker '' of evaluate_guess is *)
(* the empty string "".  An optional value (None or a value) is a sequence *)
(* of length 0 or 1.                                                       *)
(***************************************************************************)
EXTENDS Integers, Sequences, FiniteSets, TLC

\* ------------------------------------------------------------------------
\* Program constants (src/game_functions.py)
NUMBER_LENGTH == 4
MIN_NUMBER == 1000
MAX_NUMBER == 9999
TOP_SCORES == 10

\* ------------------------------------------------------------------------
\* Bounds of the model
MaxDigit == 3
MaxEvalCalls == 2
MaxLineLen == 2
MaxMod == 3
MaxExtraLines == 1
MaxScore == 2
MaxScoreCalls == 2
MaxInputLen == 5
MaxReprompts == 2
MaxAnswerLen == 2
MaxSecretOffset == 1
MaxMisses == 1
MaxReplays == 1
MaxTime == 119
ClockHz == 2

None == <<>>

DigitChars == <<"0", "1", "2", "3", "4", "5", "6", "7", "8", "9">>
Digit(n) == DigitChars[n + 1]
AsciiDigits == {DigitChars[i] : i \in 1..10}

\* ------------------------------------------------------------------------
\* Python list helpers

\* x in lst
Contains(lst, x) == \E i \in 1..Len(lst) : lst[i] = x

\* lst.index(x): the first position holding x (x is in lst)
IndexOf(lst, x) == CHOOSE i \in 1..Len(lst) : lst[i] = x /\ \A j \in 1..(i - 1) : lst[j] # x

\* ------------------------------------------------------------------------
\* evaluate_guess.  The running state st holds the locals bulls, cows and
\* generated_number_copy, and the caller's list user_number, which the
\* function writes through.

\* a bulls pass that counts the bull but marks neither list
bulls_pass_nomark(position, st) ==
    LET RECURSIVE go(_, _)
        go(p, s) ==
            IF p > NUMBER_LENGTH THEN s
            ELSE IF s.generated_number_copy[p] = s.user_number[p]
                 THEN go(p + 1, [s EXCEPT !.bulls = @ + 1])
                 ELSE go(p + 1, s)
    IN go(position, st)

\* the first loop, from `position` on
RECURSIVE bulls_pass(_, _)
bulls_pass(position, st) ==
    IF position > NUMBER_LENGTH THEN st
    ELSE IF st.generated_number_copy[position] = st.user_number[position]
         THEN bulls_pass(position + 1,
                  [st EXCEPT !.bulls = @ + 1,
                             !.generated_number_copy[position] = "",
                             !.user_number[position] = ""])
         ELSE bulls_pass(position + 1, st)

\* a cows pass that counts the cow but consumes nothing of the secret
cows_pass_noconsume(position, st) ==
    LET RECURSIVE go(_, _)
        go(p, s) ==
            IF p > NUMBER_LENGTH THEN s
            ELSE IF s.user_number[p] # "" /\ Contains(s.generated_number_copy, s.user_number[p])
                 THEN go(p + 1, [s EXCEPT !.cows = @ + 1])
                 ELSE go(p + 1, s)
    IN go(position, st)

\* a cows pass that does not skip the positions marked ''
cows_pass_nomarkcheck(position, st) ==
    LET RECURSIVE go(_, _)
        go(p, s) ==
            IF p > NUMBER_LENGTH THEN s
            ELSE IF Contains(s.generated_number_copy, s.user_number[p])
                 THEN go(p + 1,
                         [s EXCEPT !.cows = @ + 1,
                                   !.generated_number_copy[
                                       IndexOf(s.generated_number_copy, s.user_number[p])] = ""])
                 ELSE go(p + 1, s)
    IN go(position, st)

\* the second loop, from `position` on
RECURSIVE cows_pass(_, _)
cows_pass(position, st) ==
    IF position > NUMBER_LENGTH THEN st
    ELSE IF st.user_number[position] # ""
            /\ Contains(st.generated_number_copy, st.user_number[position])
         THEN cows_pass(position + 1,
                  [st EXCEPT !.cows = @ + 1,
                             !.generated_number_copy[
                                 IndexOf(st.generated_number_copy, st.user_number[position])] = ""])
         ELSE cows_pass(position + 1, st)

\* evaluate_guess working on the caller's secret instead of a copy of it
evaluate_guess_alias(generated_number, user_number) ==
    LET st0 == [bulls |-> 0, cows |-> 0,
                generated_number_copy |-> generated_number,
                user_number |-> user_number]
        st2 == cows_pass(1, bulls_pass(1, st0))
    IN [bulls |-> st2.bulls, cows |-> st2.cows,
        generated_number |-> st2.generated_number_copy,
        user_number |-> st2.user_number]

\* evaluate_guess(generated_number, user_number): the returned pair and the
\* two argument lists as the call leaves them
evaluate_guess(generated_number, user_number) ==
    LET st0 == [bulls |-> 0, cows |-> 0,
                generated_number_copy |-> generated_number,
                user_number |-> user_number]
        st2 == cows_pass(1, bulls_pass(1, st0))
    IN [bulls |-> st2.bulls, cows |-> st2.cows,
        generated_number |-> generated_number,
        user_number |-> st2.user_number]

\* ------------------------------------------------------------------------
\* Python str helpers (a str is a sequence of one-character strings)

\* A character with no TLA+ escape is written as the token "U+xxxx" of its
\* code point.

\* the characters c with c.isspace(), which str.strip() removes:
\* U+0009-U+000D, U+001C-U+001F, U+0020, U+0085, U+00A0, U+1680,
\* U+2000-U+200A, U+2028, U+2029, U+202F, U+205F, U+3000
Whitespace ==
    {" ", "\t", "\n", "\r", "\f", "U+000B",
     "U+001C", "U+001D", "U+001E", "U+001F", "U+0085", "U+00A0", "U+1680",
     "U+2000", "U+2001", "U+2002", "U+2003", "U+2004", "U+2005", "U+2006",
     "U+2007", "U+2008", "U+2009", "U+200A", "U+2028", "U+2029", "U+202F",
     "U+205F", "U+3000"}

\* s without its leading characters of the set chars
RECURSIVE lstrip_chars(_, _)
lstrip_chars(s, chars) ==
    IF s # <<>> /\ Head(s) \in chars THEN lstrip_chars(Tail(s), chars) ELSE s

\* s without its trailing characters of the set chars
RECURSIVE rstrip_chars(_, _)
rstrip_chars(s, chars) ==
    IF s # <<>> /\ s[Len(s)] \in chars
    THEN rstrip_chars(SubSeq(s, 1, Len(s) - 1), chars) ELSE s

lstrip(s) == lstrip_chars(s, Whitespace)
rstrip(s) == rstrip_chars(s, Whitespace)

\* str.strip()
strip(s) == rstrip(lstrip(s))

\* the whitespace int() itself accepts around a numeral: all of it but the
\* separators U+001C-U+001F
IntWhitespace == Whitespace \ {"U+001C", "U+001D", "U+001E", "U+001F"}

\* The digit characters are those of Unicode 15, the version of the
\* interpreters that run the program (Python 3.12 and 3.13).

\* the decimal digits outside '0'-'9' (category Nd), one row for each
\* script, each row its digits zero to nine: the characters int() converts
\* and for which str.isdecimal() is true
UnicodeDecimals ==
    <<<<"U+0660", "U+0661", "U+0662", "U+0663", "U+0664",
        "U+0665", "U+0666", "U+0667", "U+0668", "U+0669">>,
      <<"U+06F0", "U+06F1", "U+06F2", "U+06F3", "U+06F4",
        "U+06F5", "U+06F6", "U+06F7", "U+06F8", "U+06F9">>,
      <<"U+07C0", "U+07C1", "U+07C2", "U+07C3", "U+07C4",
        "U+07C5", "U+07C6", "U+07C7", "U+07C8", "U+07C9">>,
      <<"U+0966", "U+0967", "U+0968", "U+0969", "U+096A",
        "U+096B", "U+096C", "U+096D", "U+096E", "U+096F">>,
      <<"U+09E6", "U+09E7", "U+09E8", "U+09E9", "U+09EA",
        "U+09EB", "U+09EC", "U+09ED", "U+09EE", "U+09EF">>,
      <<"U+0A66", "U+0A67", "U+0A68", "U+0A69", "U+0A6A",
        "U+0A6B", "U+0A6C", "U+0A6D", "U+0A6E", "U+0A6F">>,
      <<"U+0AE6", "U+0AE7", "U+0AE8", "U+0AE9", "U+0AEA",
        "U+0AEB", "U+0AEC", "U+0AED", "U+0AEE", "U+0AEF">>,
      <<"U+0B66", "U+0B67", "U+0B68", "U+0B69", "U+0B6A",
        "U+0B6B", "U+0B6C", "U+0B6D", "U+0B6E", "U+0B6F">>,
      <<"U+0BE6", "U+0BE7", "U+0BE8", "U+0BE9", "U+0BEA",
        "U+0BEB", "U+0BEC", "U+0BED", "U+0BEE", "U+0BEF">>,
      <<"U+0C66", "U+0C67", "U+0C68", "U+0C69", "U+0C6A",
        "U+0C6B", "U+0C6C", "U+0C6D", "U+0C6E", "U+0C6F">>,
      <<"U+0CE6", "U+0CE7", "U+0CE8", "U+0CE9", "U+0CEA",
        "U+0CEB", "U+0CEC", "U+0CED", "U+0CEE", "U+0CEF">>,
      <<"U+0D66", "U+0D67", "U+0D68", "U+0D69", "U+0D6A",
        "U+0D6B", "U+0D6C", "U+0D6D", "U+0D6E", "U+0D6F">>,
      <<"U+0DE6", "U+0DE7", "U+0DE8", "U+0DE9", "U+0DEA",
        "U+0DEB", "U+0DEC", "U+0DED", "U+0DEE", "U+0DEF">>,
      <<"U+0E50", "U+0E51", "U+0E52", "U+0E53", "U+0E54",
        "U+0E55", "U+0E56", "U+0E57", "U+0E58", "U+0E59">>,
      <<"U+0ED0", "U+0ED1", "U+0ED2", "U+0ED3", "U+0ED4",
        "U+0ED5", "U+0ED6", "U+0ED7", "U+0ED8", "U+0ED9">>,
      <<"U+0F20", "U+0F21", "U+0F22", "U+0F23", "U+0F24",
        "U+0F25", "U+0F26", "U+0F27", "U+0F28", "U+0F29">>,
      <<"U+1040", "U+1041", "U+1042", "U+1043", "U+1044",
        "U+1045", "U+1046", "U+1047", "U+1048", "U+1049">>,
      <<"U+1090", "U+1091", "U+1092", "U+1093", "U+1094",
        "U+1095", "U+1096", "U+1097", "U+1098", "U+1099">>,
      <<"U+17E0", "U+17E1", "U+17E2", "U+17E3", "U+17E4",
        "U+17E5", "U+17E6", "U+17E7", "U+17E8", "U+17E9">>,
      <<"U+1810", "U+1811", "U+1812", "U+1813", "U+1814",
        "U+1815", "U+1816", "U+1817", "U+1818", "U+1819">>,
      <<"U+1946", "U+1947", "U+1948", "U+1949", "U+194A",
        "U+194B", "U+194C", "U+194D", "U+194E", "U+194F">>,
      <<"U+19D0", "U+19D1", "U+19D2", "U+19D3", "U+19D4",
        "U+19D5", "U+19D6", "U+19D7", "U+19D8", "U+19D9">>,
      <<"U+1A80", "U+1A81", "U+1A82", "U+1A83", "U+1A84",
        "U+1A85", "U+1A86", "U+1A87", "U+1A88", "U+1A89">>,
      <<"U+1A90", "U+1A91", "U+1A92", "U+1A93", "U+1A94",
        "U+1A95", "U+1A96", "U+1A97", "U+1A98", "U+1A99">>,
      <<"U+1B50", "U+1B51", "U+1B52", "U+1B53", "U+1B54",
        "U+1B55", "U+1B56", "U+1B57", "U+1B58", "U+1B59">>,
      <<"U+1BB0", "U+1BB1", "U+1BB2", "U+1BB3", "U+1BB4",
        "U+1BB5", "U+1BB6", "U+1BB7", "U+1BB8", "U+1BB9">>,
      <<"U+1C40", "U+1C41", "U+1C42", "U+1C43", "U+1C44",
        "U+1C45", "U+1C46", "U+1C47", "U+1C48", "U+1C49">>,
      <<"U+1C50", "U+1C51", "U+1C52", "U+1C53", "U+1C54",
        "U+1C55", "U+1C56", "U+1C57", "U+1C58", "U+1C59">>,
      <<"U+A620", "U+A621", "U+A622", "U+A623", "U+A624",
        "U+A625", "U+A626", "U+A627", "U+A628", "U+A629">>,
      <<"U+A8D0", "U+A8D1", "U+A8D2", "U+A8D3", "U+A8D4",
        "U+A8D5", "U+A8D6", "U+A8D7", "U+A8D8", "U+A8D9">>,
      <<"U+A900", "U+A901", "U+A902", "U+A903", "U+A904",
        "U+A905", "U+A906", "U+A907", "U+A908", "U+A909">>,
      <<"U+A9D0", "U+A9D1", "U+A9D2", "U+A9D3", "U+A9D4",
        "U+A9D5", "U+A9D6", "U+A9D7", "U+A9D8", "U+A9D9">>,
      <<"U+A9F0", "U+A9F1", "U+A9F2", "U+A9F3", "U+A9F4",
        "U+A9F5", "U+A9F6", "U+A9F7", "U+A9F8", "U+A9F9">>,
      <<"U+AA50", "U+AA51", "U+AA52", "U+AA53", "U+AA54",
        "U+AA55", "U+AA56", "U+AA57", "U+AA58", "U+AA59">>,
      <<"U+ABF0", "U+ABF1", "U+ABF2", "U+ABF3", "U+ABF4",
        "U+ABF5", "U+ABF6", "U+ABF7", "U+ABF8", "U+ABF9">>,
      <<"U+FF10", "U+FF11", "U+FF12", "U+FF13", "U+FF14",
        "U+FF15", "U+FF16", "U+FF17", "U+FF18", "U+FF19">>,
      <<"U+104A0", "U+104A1", "U+104A2", "U+104A3", "U+104A4",
        "U+104A5", "U+104A6", "U+104A7", "U+104A8", "U+104A9">>,
      <<"U+10D30", "U+10D31", "U+10D32", "U+10D33", "U+10D34",
        "U+10D35", "U+10D36", "U+10D37", "U+10D38", "U+10D39">>,
      <<"U+11066", "U+11067", "U+11068", "U+11069", "U+1106A",
        "U+1106B", "U+1106C", "U+1106D", "U+1106E", "U+1106F">>,
      <<"U+110F0", "U+110F1", "U+110F2", "U+110F3", "U+110F4",
        "U+110F5", "U+110F6", "U+110F7", "U+110F8", "U+110F9">>,
      <<"U+11136", "U+11137", "U+11138", "U+11139", "U+1113A",
        "U+1113B", "U+1113C", "U+1113D", "U+1113E", "U+1113F">>,
      <<"U+111D0", "U+111D1", "U+111D2", "U+111D3", "U+111D4",
        "U+111D5", "U+111D6", "U+111D7", "U+111D8", "U+111D9">>,
      <<"U+112F0", "U+112F1", "U+112F2", "U+112F3", "U+112F4",
        "U+112F5", "U+112F6", "U+112F7", "U+112F8", "U+112F9">>,
      <<"U+11450", "U+11451", "U+11452", "U+11453", "U+11454",
        "U+11455", "U+11456", "U+11457", "U+11458", "U+11459">>,
      <<"U+114D0", "U+114D1", "U+114D2", "U+114D3", "U+114D4",
        "U+114D5", "U+114D6", "U+114D7", "U+114D8", "U+114D9">>,
      <<"U+11650", "U+11651", "U+11652", "U+11653", "U+11654",
        "U+11655", "U+11656", "U+11657", "U+11658", "U+11659">>,
      <<"U+116C0", "U+116C1", "U+116C2", "U+116C3", "U+116C4",
        "U+116C5", "U+116C6", "U+116C7", "U+116C8", "U+116C9">>,
      <<"U+11730", "U+11731", "U+11732", "U+11733", "U+11734",
        "U+11735", "U+11736", "U+11737", "U+11738", "U+11739">>,
      <<"U+118E0", "U+118E1", "U+118E2", "U+118E3", "U+118E4",
        "U+118E5", "U+118E6", "U+118E7", "U+118E8", "U+118E9">>,
      <<"U+11950", "U+11951", "U+11952", "U+11953", "U+11954",
        "U+11955", "U+11956", "U+11957", "U+11958", "U+11959">>,
      <<"U+11C50", "U+11C51", "U+11C52", "U+11C53", "U+11C54",
        "U+11C55", "U+11C56", "U+11C57", "U+11C58", "U+11C59">>,
      <<"U+11D50", "U+11D51", "U+11D52", "U+11D53", "U+11D54",
        "U+11D55", "U+11D56", "U+11D57", "U+11D58", "U+11D59">>,
      <<"U+11DA0", "U+11DA1", "U+11DA2", "U+11DA3", "U+11DA4",
        "U+11DA5", "U+11DA6", "U+11DA7", "U+11DA8", "U+11DA9">>,
      <<"U+11F50", "U+11F51", "U+11F52", "U+11F53", "U+11F54",
        "U+11F55", "U+11F56", "U+11F57", "U+11F58", "U+11F59">>,
      <<"U+16A60", "U+16A61", "U+16A62", "U+16A63", "U+16A64",
        "U+16A65", "U+16A66", "U+16A67", "U+16A68", "U+16A69">>,
      <<"U+16AC0", "U+16AC1", "U+16AC2", "U+16AC3", "U+16AC4",
        "U+16AC5", "U+16AC6", "U+16AC7", "U+16AC8", "U+16AC9">>,
      <<"U+16B50", "U+16B51", "U+16B52", "U+16B53", "U+16B54",
        "U+16B55", "U+16B56", "U+16B57", "U+16B58", "U+16B59">>,
      <<"U+1D7CE", "U+1D7CF", "U+1D7D0", "U+1D7D1", "U+1D7D2",
        "U+1D7D3", "U+1D7D4", "U+1D7D5", "U+1D7D6", "U+1D7D7">>,
      <<"U+1D7D8", "U+1D7D9", "U+1D7DA", "U+1D7DB", "U+1D7DC",
        "U+1D7DD", "U+1D7DE", "U+1D7DF", "U+1D7E0", "U+1D7E1">>,
      <<"U+1D7E2", "U+1D7E3", "U+1D7E4", "U+1D7E5", "U+1D7E6",
        "U+1D7E7", "U+1D7E8", "U+1D7E9", "U+1D7EA", "U+1D7EB">>,
      <<"U+1D7EC", "U+1D7ED", "U+1D7EE", "U+1D7EF", "U+1D7F0",
        "U+1D7F1", "U+1D7F2", "U+1D7F3", "U+1D7F4", "U+1D7F5">>,
      <<"U+1D7F6", "U+1D7F7", "U+1D7F8", "U+1D7F9", "U+1D7FA",
        "U+1D7FB", "U+1D7FC", "U+1D7FD", "U+1D7FE", "U+1D7FF">>,
      <<"U+1E140", "U+1E141", "U+1E142", "U+1E143", "U+1E144",
        "U+1E145", "U+1E146", "U+1E147", "U+1E148", "U+1E149">>,
      <<"U+1E2F0", "U+1E2F1", "U+1E2F2", "U+1E2F3", "U+1E2F4",
        "U+1E2F5", "U+1E2F6", "U+1E2F7", "U+1E2F8", "U+1E2F9">>,
      <<"U+1E4F0", "U+1E4F1", "U+1E4F2", "U+1E4F3", "U+1E4F4",
        "U+1E4F5", "U+1E4F6", "U+1E4F7", "U+1E4F8", "U+1E4F9">>,
      <<"U+1E950", "U+1E951", "U+1E952", "U+1E953", "U+1E954",
        "U+1E955", "U+1E956", "U+1E957", "U+1E958", "U+1E959">>,
      <<"U+1FBF0", "U+1FBF1", "U+1FBF2", "U+1FBF3", "U+1FBF4",
        "U+1FBF5", "U+1FBF6", "U+1FBF7", "U+1FBF8", "U+1FBF9">>>>

DecimalDigits ==
    AsciiDigits \cup {UnicodeDecimals[r][d] : r \in 1..Len(UnicodeDecimals), d \in 1..10}

\* the characters that are digits without being decimal digits
\* (superscripts, subscripts, circled and dotted digits, ...): str.isdigit()
\* is true for them and int() refuses them
OtherDigits ==
    {"U+00B2", "U+00B3", "U+00B9", "U+1369", "U+136A", "U+136B", "U+136C",
     "U+136D", "U+136E", "U+136F", "U+1370", "U+1371", "U+19DA", "U+2070",
     "U+2074", "U+2075", "U+2076", "U+2077", "U+2078", "U+2079", "U+2080",
     "U+2081", "U+2082", "U+2083", "U+2084", "U+2085", "U+2086", "U+2087",
     "U+2088", "U+2089", "U+2460", "U+2461", "U+2462", "U+2463", "U+2464",
     "U+2465", "U+2466", "U+2467", "U+2468", "U+2474", "U+2475", "U+2476",
     "U+2477", "U+2478", "U+2479", "U+247A", "U+247B", "U+247C", "U+2488",
     "U+2489", "U+248A", "U+248B", "U+248C", "U+248D", "U+248E", "U+248F",
     "U+2490", "U+24EA", "U+24F5", "U+24F6", "U+24F7", "U+24F8", "U+24F9",
     "U+24FA", "U+24FB", "U+24FC", "U+24FD", "U+24FF", "U+2776", "U+2777",
     "U+2778", "U+2779", "U+277A", "U+277B", "U+277C", "U+277D", "U+277E",
     "U+2780", "U+2781", "U+2782", "U+2783", "U+2784", "U+2785", "U+2786",
     "U+2787", "U+2788", "U+278A", "U+278B", "U+278C", "U+278D", "U+278E",
     "U+278F", "U+2790", "U+2791", "U+2792", "U+10A40", "U+10A41", "U+10A42",
     "U+10A43", "U+10E60", "U+10E61", "U+10E62", "U+10E63", "U+10E64", "U+10E65",
     "U+10E66", "U+10E67", "U+10E68", "U+11052", "U+11053", "U+11054", "U+11055",
     "U+11056", "U+11057", "U+11058", "U+11059", "U+1105A", "U+1F100", "U+1F101",
     "U+1F102", "U+1F103", "U+1F104", "U+1F105", "U+1F106", "U+1F107", "U+1F108",
     "U+1F109", "U+1F10A"}

\* U+00B2 SUPERSCRIPT TWO, one of OtherDigits, and U+0663 ARABIC-INDIC DIGIT
\* THREE, one of DecimalDigits
SUP2 == "U+00B2"
ARABIC3 == "U+0663"

\* the value of the decimal digit c
DigitValue(c) ==
    IF c \in AsciiDigits THEN CHOOSE n \in 0..9 : Digit(n) = c
    ELSE CHOOSE n \in 0..9 : \E r \in 1..Len(UnicodeDecimals) : UnicodeDecimals[r][n + 1] = c

\* the value of a sequence of decimal digits, most significant first
RECURSIVE DecValue(_)
DecValue(ds) ==
    IF ds = <<>> THEN 0
    ELSE 10 * DecValue(SubSeq(ds, 1, Len(ds) - 1)) + DigitValue(ds[Len(ds)])

\* the decimal digits of n >= 0, most significant first
RECURSIVE DecDigits(_)
DecDigits(n) == IF n < 10 THEN <<Digit(n)>> ELSE Append(DecDigits(n \div 10), Digit(n % 10))

\* str(n) and f"{n}" for an int n
str(n) == IF n < 0 THEN <<"-">> \o DecDigits(-n) ELSE DecDigits(n)

\* the interpreter's limit on the digits of a str given to int()
\* (sys.int_info.default_max_str_digits)
INT_MAX_STR_DIGITS == 4300

\* int(s) for a str s: surrounding whitespace is dropped, one sign is
\* allowed, then digits, with single underscores allowed between digits;
\* more than INT_MAX_STR_DIGITS digits are refused.
\* [ok |-> FALSE] stands for ValueError.
int(s) ==
    LET t == rstrip_chars(lstrip_chars(s, IntWhitespace), IntWhitespace)
        signed == t # <<>> /\ Head(t) \in {"+", "-"}
        body == IF signed THEN Tail(t) ELSE t
        wellformed ==
            /\ body # <<>>
            /\ \A i \in 1..Len(body) : body[i] \in DecimalDigits \cup {"_"}
            /\ body[1] # "_"
            /\ body[Len(body)] # "_"
            /\ \A i \in 1..(Len(body) - 1) : ~(body[i] = "_" /\ body[i + 1] = "_")
        digits == SelectSeq(body, LAMBDA c : c # "_")
    IN IF wellformed /\ Len(digits) <= INT_MAX_STR_DIGITS
       THEN [ok |-> TRUE,
             value |-> IF signed /\ Head(t) = "-" THEN 0 - DecValue(digits) ELSE DecValue(digits)]
       ELSE [ok |-> FALSE, value |-> 0]

\* ------------------------------------------------------------------------
\* highscore.  The score file is a record: whether it exists, whether it
\* can be opened for reading, and its lines (each without its newline).

FileMissing == [exists |-> FALSE, readable |-> FALSE, lines |-> <<>>]
FileUnreadable == [exists |-> TRUE, readable |-> FALSE, lines |-> <<>>]
TextFile(lines) == [exists |-> TRUE, readable |-> TRUE, lines |-> lines]

\* the characters of a file of the given lines, each ended by its newline
RECURSIVE file_text(_)
file_text(lines) ==
    IF lines = <<>> THEN <<>> ELSE Head(lines) \o <<"\n">> \o file_text(Tail(lines))

\* the line ends a text-mode read recognises: \n, \r and \r\n
Newlines == {"\n", "\r"}

\* the lines `for line in f` yields for the characters `text`, each without
\* its line end
splitlines(text) ==
    LET n == Len(text)
        \* the positions at which a line ends (of \r\n, the \n)
        ends == {i \in 1..n : /\ text[i] \in Newlines
                              /\ ~(text[i] = "\r" /\ i < n /\ text[i + 1] = "\n")}
        count == Cardinality(ends)
        end(k) == IF k = 0 THEN 0
                  ELSE CHOOSE i \in ends : Cardinality({j \in ends : j <= i}) = k
        \* the last character of the line ending at position e
        last(e) == IF text[e] = "\n" /\ e > 1 /\ text[e - 1] = "\r" THEN e - 2 ELSE e - 1
        whole == [k \in 1..count |-> SubSeq(text, end(k - 1) + 1, last(end(k)))]
    IN IF end(count) < n THEN Append(whole, SubSeq(text, end(count) + 1, n)) ELSE whole

\* the position at which x goes into the ascending list s
RECURSIVE insert(_, _)
insert(s, x) ==
    IF s = <<>> THEN <<x>>
    ELSE IF x < Head(s) THEN <<x>> \o s
         ELSE <<Head(s)>> \o insert(Tail(s), x)

\* sorted() leaving the list as it is
sorted_unsorted(s) == s

\* sorted(s) for a list of ints: ascending
RECURSIVE sorted(_)
sorted(s) == IF s = <<>> THEN <<>> ELSE insert(sorted(SubSeq(s, 1, Len(s) - 1)), s[Len(s)])

\* a slice that keeps everything
top10_all(s) == s

\* s[:10]
top10(s) == SubSeq(s, 1, IF Len(s) < TOP_SCORES THEN Len(s) ELSE TOP_SCORES)

\* a reader that skips the lines int() rejects instead of giving up
read_scores_skip(f) ==
    IF ~f.exists THEN <<>>
    ELSE LET kept == SelectSeq(splitlines(file_text(f.lines)),
                               LAMBDA line : strip(line) # <<>> /\ int(strip(line)).ok)
         IN [i \in 1..Len(kept) |-> int(strip(kept[i])).value]

\* lines 173-177: the scores read from the file f (missing or a readable
\* text); FileNotFoundError and ValueError both give []
read_scores(f) ==
    IF ~f.exists THEN <<>>
    ELSE LET nonblank == SelectSeq(splitlines(file_text(f.lines)),
                                   LAMBDA line : strip(line) # <<>>)
         IN IF \A i \in 1..Len(nonblank) : int(strip(nonblank[i])).ok
            THEN [i \in 1..Len(nonblank) |-> int(strip(nonblank[i])).value]
            ELSE <<>>

\* lines 178-179: the list highscore(score) returns, given the file f
new_scores(f, score) == top10(sorted(Append(read_scores(f), score)))

\* lines 183-184: the lines written for the list scores
score_lines(scores) == [i \in 1..Len(scores) |-> str(scores[i])]

\* lines 182-185: what a rewrite that raised OSError after open() can leave
\* in the file.  open() has truncated it; the lines go through a buffer to
\* the file as characters, so any leading part of them may have arrived:
\* nothing, whole lines, a line cut short, all but the last newline, or
\* all of it when the error comes at close().
partial_writes(scores) ==
    LET text == file_text(score_lines(scores))
    IN {TextFile(splitlines(SubSeq(text, 1, k))) : k \in 0..Len(text)}

\* an except clause that lets the OSError go on to the caller
on_write_error_raise(scores) == [raised |-> TRUE, warned |-> FALSE, returned |-> <<>>]

\* lines 185-187: what highscore does when the write raised OSError
on_write_error(scores) == [raised |-> FALSE, warned |-> TRUE, returned |-> scores]

\* ------------------------------------------------------------------------
VARIABLES
    pc,                \* position of the process
    calls,             \* history: calls made of the function under study
    generated_number,  \* the secret list
    user_number,       \* the guess list
    bulls, cows,       \* the pair last returned by evaluate_guess
    arg_secret,        \* history: the secret as generated / first passed
    arg_guess,         \* history: the guess as passed to evaluate_guess
    first_result,      \* history: <<bulls, cows>> of the first call
    file,              \* the score file
    high_scores,       \* the list last returned by highscore
    warned,            \* the last highscore call printed the warning
    score,             \* the argument of the last highscore call
    prior_file,        \* history: the file before the last highscore call
    last_write,        \* history: how the last rewrite of the file went
    attempts,          \* play_game's attempt counter
    start_time,        \* None or the clock at the round's first valid guess
    end_time,          \* the clock at the winning guess
    now,               \* the wall clock time.time() reads, in ticks
    reprompts,         \* history: inputs rejected since the last valid one
    credits,           \* None or the arguments of the last end_credits call
    evaluated          \* history: guesses evaluated in the current round

evalVars == <<generated_number, user_number, bulls, cows, arg_secret, arg_guess, first_result>>
scoreVars == <<file, high_scores, warned, score, prior_file, last_write>>
gameVars == <<attempts, start_time, end_time, now, reprompts, credits, evaluated>>
vars == <<pc, calls, evalVars, scoreVars, gameVars>>

EvalIdle ==
    /\ generated_number = <<>>
    /\ user_number = <<>>
    /\ bulls = 0
    /\ cows = 0
    /\ arg_secret = <<>>
    /\ arg_guess = <<>>
    /\ first_result = None

ScoreIdle ==
    /\ high_scores = <<>>
    /\ warned = FALSE
    /\ score = 0
    /\ prior_file = file
    /\ last_write = "none"

GameIdle ==
    /\ attempts = 0
    /\ start_time = None
    /\ end_time = 0
    /\ now = 0
    /\ reprompts = 0
    /\ credits = None
    /\ evaluated = 0

\* ------------------------------------------------------------------------
\* Specification of evaluate_guess on its own: any two lists of
\* NUMBER_LENGTH digits, and the call made up to MaxEvalCalls times on the
\* same two list objects.

EvalDigits == {Digit(n) : n \in 0..MaxDigit}
DigitLists == [1..NUMBER_LENGTH -> EvalDigits]

InitEval ==
    /\ pc = "eval"
    /\ calls = 0
    /\ generated_number \in DigitLists
    /\ user_number \in DigitLists
    /\ bulls = 0
    /\ cows = 0
    /\ arg_secret = generated_number
    /\ arg_guess = user_number
    /\ first_result = None
    /\ file = FileMissing
    /\ ScoreIdle
    /\ GameIdle

EvalCall ==
    /\ pc = "eval"
    /\ calls < MaxEvalCalls
    /\ LET r == evaluate_guess(generated_number, user_number)
       IN /\ bulls' = r.bulls
          /\ cows' = r.cows
          /\ generated_number' = r.generated_number
          /\ user_number' = r.user_number
          /\ first_result' = IF calls = 0 THEN <<r.bulls, r.cows>> ELSE first_result
    /\ calls' = calls + 1
    /\ UNCHANGED <<pc, arg_secret, arg_guess, scoreVars, gameVars>>

NextEval == EvalCall

SpecEval == InitEval /\ [][NextEval]_vars

\* ------------------------------------------------------------------------
\* highscore(s) as a step.  Line 171 makes the directory of the file, the
\* current one, which is there.  The read of an unreadable file raises an
\* OSError that no except clause catches.  The rewrite either succeeds, or
\* fails at open() (the file is left as it was), or fails after open() has
\* truncated the file and some leading characters of the lines have reached
\* it.  `after` is the position the caller goes on to when highscore
\* returns.

HighscoreRaises(s, after) ==
    /\ file.exists /\ ~file.readable
    /\ pc' = "raised"
    /\ score' = s
    /\ prior_file' = file
    /\ UNCHANGED <<file, high_scores, warned, last_write>>

HighscoreWrites(s, after) ==
    /\ ~file.exists \/ file.readable
    /\ pc' = after
    /\ score' = s
    /\ prior_file' = file
    /\ high_scores' = new_scores(file, s)
    /\ file' = TextFile(score_lines(new_scores(file, s)))
    /\ warned' = FALSE
    /\ last_write' = "ok"

HighscoreWriteFails(s, after) ==
    /\ ~file.exists \/ file.readable
    /\ score' = s
    /\ prior_file' = file
    /\ LET scores == new_scores(file, s)
           handled == on_write_error(scores)
       IN /\ pc' = IF handled.raised THEN "raised" ELSE after
          /\ warned' = handled.warned
          /\ high_scores' = handled.returned
          /\ \/ /\ file' = file
                /\ last_write' = "open_failed"
             \/ /\ file' \in partial_writes(scores)
                /\ last_write' = "write_failed"

\* ------------------------------------------------------------------------
\* Specification of highscore on its own: any starting file of the sets
\* below, then up to MaxScoreCalls calls with scores in 0..MaxScore.

LineChars == {"0", ARABIC3, "-", " ", "x"}
RawLines == UNION {[1..n -> LineChars] : n \in 0..MaxLineLen}

Scores == 0..MaxScore
GoodLines == {str(n) : n \in Scores}

\* files of one arbitrary line, alone or before or after a well-formed one
ShortFiles ==
    {TextFile(<<>>)} \cup {TextFile(<<l>>) : l \in RawLines}
        \cup {TextFile(<<l, w>>) : l \in RawLines, w \in GoodLines}
        \cup {TextFile(<<w, l>>) : l \in RawLines, w \in GoodLines}

\* files of about TOP_SCORES well-formed lines in no particular order
LongFiles ==
    {TextFile([i \in 1..n |-> str((a * i) % m)]) :
        n \in (TOP_SCORES - 1)..(TOP_SCORES + MaxExtraLines),
        a \in 1..MaxMod, m \in 2..MaxMod}

\* a numeral of one digit more than int() converts
LongNumeral == [i \in 1..(INT_MAX_STR_DIGITS + 1) |-> "1"]

\* a file holding an integer of that many digits after a well-formed line
HugeFiles == {TextFile(<<str(1), LongNumeral>>)}

InitFiles == {FileMissing, FileUnreadable} \cup ShortFiles \cup LongFiles \cup HugeFiles

InitScore ==
    /\ pc = "score"
    /\ calls = 0
    /\ EvalIdle
    /\ file \in InitFiles
    /\ ScoreIdle
    /\ GameIdle

ScoreCallRaises ==
    /\ pc = "score"
    /\ calls < MaxScoreCalls
    /\ \E s \in Scores : HighscoreRaises(s, "score")
    /\ calls' = calls + 1
    /\ UNCHANGED <<evalVars, gameVars>>

ScoreCallWrites ==
    /\ pc = "score"
    /\ calls < MaxScoreCalls
    /\ \E s \in Scores : HighscoreWrites(s, "score")
    /\ calls' = calls + 1
    /\ UNCHANGED <<evalVars, gameVars>>

ScoreCallWriteFails ==
    /\ pc = "score"
    /\ calls < MaxScoreCalls
    /\ \E s \in Scores : HighscoreWriteFails(s, "score")
    /\ calls' = calls + 1
    /\ UNCHANGED <<evalVars, gameVars>>

NextScore == ScoreCallRaises \/ ScoreCallWrites \/ ScoreCallWriteFails

SpecScore == InitScore /\ [][NextScore]_vars

\* ------------------------------------------------------------------------
\* get_user_input, calculate_time, ask_to_continue

\* str.isdigit(): non-empty and every character is a digit character
isdigit(s) == s # <<>> /\ \A i \in 1..Len(s) : s[i] \in DecimalDigits \cup OtherDigits

\* one turn of the loop of get_user_input on the raw line `raw`: the message
\* printed on a rejection, or "ok" and the list returned
get_user_input(raw) ==
    LET user_number_ == strip(raw)
    IN IF ~isdigit(user_number_)
       THEN [verdict |-> "NOT a number", returned |-> <<>>]
       ELSE IF Len(user_number_) # NUMBER_LENGTH
       THEN [verdict |-> "NOT 4 digits", returned |-> <<>>]
       ELSE IF Head(user_number_) = "0"
       THEN [verdict |-> "CANNOT start with zero", returned |-> <<>>]
       ELSE [verdict |-> "ok", returned |-> user_number_]

\* A time is a whole number of clock ticks, ClockHz ticks to the second.

\* int(round(x)) for a time x: the nearest whole number of seconds, a half
\* going to the even neighbour
round(x) ==
    LET q == x \div ClockHz
        r == x % ClockHz
    IN IF 2 * r < ClockHz THEN q
       ELSE IF 2 * r > ClockHz THEN q + 1
       ELSE IF q % 2 = 0 THEN q ELSE q + 1

\* calculate_time(start_time, end_time): minutes is floored, seconds and
\* the total are each rounded on their own, so seconds can come out as 60
calculate_time(start, end) ==
    LET time_elapsed == end - start
        minutes == time_elapsed \div (60 * ClockHz)
        seconds == time_elapsed % (60 * ClockHz)
    IN [mins |-> minutes, secs |-> round(seconds), total |-> round(time_elapsed)]

\* s.lower() == t, for t one of the strings 'y' and 'n' of line 201.
\* lower() gives at least one character for each character of s, and the
\* only characters it turns into y are y and Y, into n are n and N.
lower_is(s, t) ==
    /\ Len(s) = 1
    /\ \/ t = "y" /\ s[1] \in {"y", "Y"}
       \/ t = "n" /\ s[1] \in {"n", "N"}

\* one turn of the loop of ask_to_continue on the raw line `raw`
ask_to_continue(raw) ==
    LET stripped == strip(raw)
    IN IF lower_is(stripped, "y") \/ lower_is(stripped, "n")
       THEN [valid |-> TRUE, returned |-> lower_is(stripped, "y")]
       ELSE [valid |-> FALSE, returned |-> FALSE]

\* list(str(n))
digits_of(n) == str(n)

\* ------------------------------------------------------------------------
\* Specification of get_user_input on its own: raw lines are read until one
\* is accepted.

InputChars == {"0", "1", " ", "U+000B", "a", SUP2, ARABIC3}
RawInputs == UNION {[1..n -> InputChars] : n \in 0..MaxInputLen}

\* what get_user_input makes of the raw lines
UserInputs == {get_user_input(raw) : raw \in RawInputs}

InitInput ==
    /\ pc = "input"
    /\ calls = 0
    /\ EvalIdle
    /\ file = FileMissing
    /\ ScoreIdle
    /\ GameIdle

\* lines 74-79: a message, and the loop goes round
InputRejected ==
    /\ pc = "input"
    /\ reprompts < MaxReprompts
    /\ \E got \in UserInputs : got.verdict # "ok"
    /\ reprompts' = reprompts + 1
    /\ UNCHANGED <<pc, calls, evalVars, scoreVars,
                   attempts, start_time, end_time, now, credits, evaluated>>

\* lines 80-82: break and return list(user_number)
InputAccepted ==
    /\ pc = "input"
    /\ \E got \in UserInputs :
          /\ got.verdict = "ok"
          /\ user_number' = got.returned
    /\ pc' = "returned"
    /\ UNCHANGED <<calls, generated_number, bulls, cows, arg_secret, arg_guess,
                   first_result, scoreVars, gameVars>>

NextInput == InputRejected \/ InputAccepted

SpecInput == InitInput /\ [][NextInput]_vars

\* ------------------------------------------------------------------------
\* Specification of play_game.  A step runs from one blocking console read
\* to the next; the clock may advance while the read blocks.

GameChars == {"0", "1", " ", "a"}
GameInputs ==
    {get_user_input(raw) : raw \in UNION {[1..n -> GameChars] : n \in 0..MaxInputLen}}
AnswerChars == {"y", "N", " ", "x"}
RawAnswers == UNION {[1..n -> AnswerChars] : n \in 0..MaxAnswerLen}
UserAnswers == {ask_to_continue(raw) : raw \in RawAnswers}
Secrets == {n \in MIN_NUMBER..MAX_NUMBER : n <= MIN_NUMBER + MaxSecretOffset}
GameFiles == {FileMissing, FileUnreadable, TextFile(<<str(1), str(0)>>)}
\* how long a console read blocks: no time, or MaxTime ticks
Ticks == {0, MaxTime}

InitGame ==
    /\ pc = "guess"
    /\ calls = 0
    /\ generated_number \in {digits_of(n) : n \in Secrets}
    /\ arg_secret = generated_number
    /\ user_number = <<>>
    /\ arg_guess = <<>>
    /\ bulls = 0
    /\ cows = 0
    /\ first_result = None
    /\ file \in GameFiles
    /\ ScoreIdle
    /\ GameIdle

Tick(dt) ==
    /\ now + dt <= MaxTime
    /\ now' = now + dt

\* lines 74-79: the input is rejected and asked for again
GuessRejected ==
    /\ pc = "guess"
    /\ reprompts < MaxReprompts
    /\ \E got \in GameInputs, dt \in Ticks :
          /\ Tick(dt)
          /\ got.verdict # "ok"
    /\ reprompts' = reprompts + 1
    /\ UNCHANGED <<pc, calls, evalVars, scoreVars,
                   attempts, start_time, end_time, credits, evaluated>>

\* lines 72-81: a valid guess that is no win
GuessMiss ==
    /\ pc = "guess"
    /\ attempts < MaxMisses
    /\ \E got \in GameInputs, dt \in Ticks :
          LET r == evaluate_guess(generated_number, got.returned)
          IN /\ Tick(dt)
             /\ got.verdict = "ok"
             /\ r.bulls # NUMBER_LENGTH
             /\ start_time' = IF start_time = None THEN <<now'>> ELSE start_time
             /\ arg_guess' = got.returned
             /\ generated_number' = r.generated_number
             /\ user_number' = r.user_number
             /\ bulls' = r.bulls
             /\ cows' = r.cows
    /\ attempts' = attempts + 1
    /\ evaluated' = evaluated + 1
    /\ reprompts' = 0
    /\ UNCHANGED <<pc, calls, arg_secret, first_result, scoreVars, end_time, credits>>

\* lines 72-87: the winning guess, the score and the end credits
GuessWin(got, dt, outcome) ==
    LET r == evaluate_guess(generated_number, got.returned)
        started == IF start_time = None THEN <<now + dt>> ELSE start_time
        t == calculate_time(started[1], now + dt)
    IN /\ Tick(dt)
       /\ got.verdict = "ok"
       /\ r.bulls = NUMBER_LENGTH
       /\ start_time' = started
       /\ arg_guess' = got.returned
       /\ generated_number' = r.generated_number
       /\ user_number' = r.user_number
       /\ bulls' = r.bulls
       /\ cows' = r.cows
       /\ attempts' = attempts + 1
       /\ evaluated' = evaluated + 1
       /\ reprompts' = 0
       /\ calls' = calls + 1
       /\ end_time' = now + dt
       /\ \/ outcome = "raises" /\ HighscoreRaises(t.total, "replay")
          \/ outcome = "writes" /\ HighscoreWrites(t.total, "replay")
          \/ outcome = "write fails" /\ HighscoreWriteFails(t.total, "replay")
       /\ credits' = IF pc' = "raised" THEN credits
                     ELSE <<[mins |-> t.mins, secs |-> t.secs,
                             high_scores |-> high_scores',
                             attempts |-> attempts']>>
       /\ UNCHANGED <<arg_secret, first_result>>

GuessWinRaises ==
    /\ pc = "guess"
    /\ \E got \in GameInputs, dt \in Ticks : GuessWin(got, dt, "raises")

GuessWinWrites ==
    /\ pc = "guess"
    /\ \E got \in GameInputs, dt \in Ticks : GuessWin(got, dt, "writes")

GuessWinWriteFails ==
    /\ pc = "guess"
    /\ \E got \in GameInputs, dt \in Ticks : GuessWin(got, dt, "write fails")

\* lines 200-203: the answer is neither y nor n
ReplayInvalid ==
    /\ pc = "replay"
    /\ reprompts < MaxReprompts
    /\ \E ans \in UserAnswers, dt \in Ticks :
          /\ Tick(dt)
          /\ ~ans.valid
    /\ reprompts' = reprompts + 1
    /\ UNCHANGED <<pc, calls, evalVars, scoreVars,
                   attempts, start_time, end_time, credits, evaluated>>

\* lines 88 and 60-71: y, and the next round begins
ReplayYes ==
    /\ pc = "replay"
    /\ calls <= MaxReplays
    /\ \E ans \in UserAnswers, dt \in Ticks, n \in Secrets :
          /\ Tick(dt)
          /\ ans.valid
          /\ ans.returned
          /\ generated_number' = digits_of(n)
          /\ arg_secret' = digits_of(n)
    /\ attempts' = 0
    /\ start_time' = None
    /\ evaluated' = 0
    /\ reprompts' = 0
    /\ pc' = "guess"
    /\ UNCHANGED <<calls, user_number, bulls, cows, arg_guess, first_result,
                   scoreVars, end_time, credits>>

\* lines 88-89: n, and play_game returns
ReplayNo ==
    /\ pc = "replay"
    /\ \E ans \in UserAnswers, dt \in Ticks :
          /\ Tick(dt)
          /\ ans.valid
          /\ ~ans.returned
    /\ pc' = "done"
    /\ reprompts' = 0
    /\ UNCHANGED <<calls, evalVars, scoreVars,
                   attempts, start_time, end_time, credits, evaluated>>

NextGame ==
    \/ GuessRejected
    \/ GuessMiss
    \/ GuessWinRaises
    \/ GuessWinWrites
    \/ GuessWinWriteFails
    \/ ReplayInvalid
    \/ ReplayYes
    \/ ReplayNo

SpecGame == InitGame /\ [][NextGame]_vars

\* ========================================================================
\* Properties

Min(a, b) == IF a < b THEN a ELSE b
Max(a, b) == IF a > b THEN a ELSE b
CountIn(s, v) == Cardinality({i \in 1..Len(s) : s[i] = v})
IsAscending(s) == \A i \in 1..(Len(s) - 1) : s[i] <= s[i + 1]

\* f[DigitChars[1]] + ... + f[DigitChars[n]]
RECURSIVE SumDigits(_, _)
SumDigits(f, n) == IF n = 0 THEN 0 ELSE f[DigitChars[n]] + SumDigits(f, n - 1)

\* the number of positions at which S and G agree
RefBulls(S, G) == Cardinality({i \in 1..NUMBER_LENGTH : S[i] = G[i]})

\* over the positions at which S and G differ: the digits common to both,
\* each counted as often as it occurs in both
RefCows(S, G) ==
    LET unmatched == {i \in 1..NUMBER_LENGTH : S[i] # G[i]}
        inS(d) == Cardinality({i \in unmatched : S[i] = d})
        inG(d) == Cardinality({i \in unmatched : G[i] = d})
        common == [d \in AsciiDigits |-> Min(inS(d), inG(d))]
    IN SumDigits(common, Len(DigitChars))

\* C1: for any secret and guess of NUMBER_LENGTH digits, evaluate_guess
\* returns bulls >= 0 and cows >= 0 with bulls + cows <= NUMBER_LENGTH.
C1_BullsPlusCowsBounded ==
    (pc = "eval" /\ calls = 1) =>
        /\ bulls >= 0
        /\ cows >= 0
        /\ bulls + cows <= NUMBER_LENGTH

C1_Witness == pc = "eval" /\ calls = 1 /\ bulls = 1 /\ cows = 3

\* C2: bulls is the number of agreeing positions and cows is the sum over
\* the digits d of min(occurrences of d among the non-bull positions of the
\* secret, occurrences among the non-bull positions of the guess); the
\* three worked examples give (0, 4), (0, 4) and (1, 0).
C2_BullsAndCowsExact ==
    /\ (pc = "eval" /\ calls = 1) =>
           /\ bulls = RefBulls(arg_secret, arg_guess)
           /\ cows = RefCows(arg_secret, arg_guess)
    /\ LET r == evaluate_guess(<<"1", "2", "3", "4">>, <<"4", "3", "2", "1">>)
       IN r.bulls = 0 /\ r.cows = 4
    /\ LET r == evaluate_guess(<<"1", "1", "2", "2">>, <<"2", "2", "1", "1">>)
       IN r.bulls = 0 /\ r.cows = 4
    /\ LET r == evaluate_guess(<<"1", "1", "1", "1">>, <<"1", "2", "2", "2">>)
       IN r.bulls = 1 /\ r.cows = 0

C2_Witness ==
    /\ pc = "eval" /\ calls = 1
    /\ arg_secret = <<"1", "2", "2", "2">>
    /\ arg_guess = <<"2", "1", "1", "1">>
    /\ bulls = 0 /\ cows = 2

\* C3: a guess equal to the secret is answered with exactly
\* (NUMBER_LENGTH, 0).
C3_EqualGuessAllBulls ==
    (pc = "eval" /\ calls = 1 /\ arg_guess = arg_secret) =>
        (bulls = NUMBER_LENGTH /\ cows = 0)

C3_Witness ==
    /\ pc = "eval" /\ calls = 1
    /\ arg_guess = arg_secret
    /\ arg_secret = <<"3", "0", "3", "1">>
    /\ bulls = NUMBER_LENGTH

\* C4: evaluate_guess has no side effects: after any call both argument
\* lists hold the digits they held before it, and a second call with the
\* same two arguments returns the pair the first call returned.
C4_NoSideEffects ==
    (pc = "eval" /\ calls >= 1) =>
        /\ generated_number = arg_secret
        /\ user_number = arg_guess
        /\ <<bulls, cows>> = first_result

\* ------------------------------------------------------------------------
\* The score file as the properties below read it.

\* a line holding an integer in decimal: decimal digits of any script,
\* possibly after a minus
RefNumeral(l) ==
    LET body == IF l # <<>> /\ l[1] = "-" THEN Tail(l) ELSE l
    IN body # <<>> /\ \A i \in 1..Len(body) : body[i] \in DecimalDigits

RefValue(l) == IF l[1] = "-" THEN 0 - DecValue(Tail(l)) ELSE DecValue(l)

\* the form in which an integer is written: the digits '0'-'9', no leading
\* zero, no "-0"
RefCanonical(l) ==
    LET body == IF l # <<>> /\ l[1] = "-" THEN Tail(l) ELSE l
    IN /\ RefNumeral(l)
       /\ \A i \in 1..Len(body) : body[i] \in AsciiDigits
       /\ (Len(body) > 1 => body[1] # "0")
       /\ (l[1] = "-" => body # <<"0">>)

\* a numeral of no more digits than int() converts
RefConverts(l) ==
    /\ RefNumeral(l)
    /\ Len(l) <= (IF l[1] = "-" THEN INT_MAX_STR_DIGITS + 1 ELSE INT_MAX_STR_DIGITS)

NonBlank(f) == SelectSeq([i \in 1..Len(f.lines) |-> strip(f.lines[i])], LAMBDA l : l # <<>>)

\* the file holds a list of integers
HoldsIntegers(f) ==
    f.exists /\ f.readable /\ \A i \in 1..Len(NonBlank(f)) : RefNumeral(NonBlank(f)[i])

\* the file holds a list of integers of no more digits than int() converts
HoldsConvertible(f) ==
    f.exists /\ f.readable /\ \A i \in 1..Len(NonBlank(f)) : RefConverts(NonBlank(f)[i])

\* the file is there and some non-blank line of it does not parse as an
\* integer
Corrupt(f) ==
    f.exists /\ f.readable /\ \E i \in 1..Len(NonBlank(f)) : ~RefConverts(NonBlank(f)[i])

HeldIntegers(f) == [i \in 1..Len(NonBlank(f)) |-> RefValue(NonBlank(f)[i])]

\* hs is the ascending list of the TOP_SCORES smallest entries of all
SmallestOf(hs, all) ==
    /\ IsAscending(hs)
    /\ Len(hs) = Min(TOP_SCORES, Len(all))
    /\ \A i \in 1..Len(all) :
          CountIn(hs, all[i]) =
              Min(CountIn(all, all[i]),
                  Max(0, TOP_SCORES - Cardinality({j \in 1..Len(all) : all[j] < all[i]})))

\* the file holds exactly the list hs, one integer per line
FileHolds(f, hs) ==
    /\ f.exists /\ f.readable
    /\ Len(f.lines) = Len(hs)
    /\ \A i \in 1..Len(hs) : RefCanonical(f.lines[i]) /\ RefValue(f.lines[i]) = hs[i]

\* C5 as claimed: for a readable file holding a list P of integers, however
\* long they are, and a new score s, highscore(s) returns the ascending list
\* of the 10 smallest of P with s (which has one entry more than P, up to
\* 10), and after a successful write the file holds exactly that list.
C5_TopTenSortedAnyIntegers ==
    (pc = "score" /\ calls >= 1 /\ HoldsIntegers(prior_file)) =>
        /\ Len(high_scores) = Min(TOP_SCORES, Len(NonBlank(prior_file)) + 1)
        /\ SmallestOf(high_scores, Append(HeldIntegers(prior_file), score))
        /\ (last_write = "ok" => FileHolds(file, high_scores))

\* C5 as amended: for a readable file holding a list P of integers of at
\* most 4300 digits each and a new score s, highscore(s) returns the
\* ascending list of the 10 smallest of P with s, and after a successful
\* write the file holds exactly that list; P = [5, 9, 20] and s = 3 give
\* [3, 5, 9, 20].
C5_TopTenSorted ==
    /\ (pc = "score" /\ calls >= 1 /\ HoldsConvertible(prior_file)) =>
           /\ SmallestOf(high_scores, Append(HeldIntegers(prior_file), score))
           /\ (last_write = "ok" => FileHolds(file, high_scores))
    /\ new_scores(TextFile(<<(<<"5">>), (<<"9">>), (<<"2", "0">>)>>), 3) = <<3, 5, 9, 20>>

C5_Witness ==
    /\ pc = "score" /\ calls >= 1 /\ last_write = "ok"
    /\ HoldsConvertible(prior_file)
    /\ Len(prior_file.lines) = TOP_SCORES + 1
    /\ ~IsAscending(HeldIntegers(prior_file))
    /\ CountIn(high_scores, score) = CountIn(HeldIntegers(prior_file), score)

\* C6 as claimed: after every highscore call whose write succeeds, whatever
\* the file held before, the file holds at most 10 lines, each a
\* non-negative integer, in ascending order.
C6_FileBoundedNonNegative ==
    (pc = "score" /\ last_write = "ok") =>
        /\ Len(file.lines) <= TOP_SCORES
        /\ \A i \in 1..Len(file.lines) :
              RefCanonical(file.lines[i]) /\ RefValue(file.lines[i]) >= 0
        /\ IsAscending(HeldIntegers(file))

\* C6 as amended: after every highscore call whose write succeeds, the file
\* holds at most 10 lines, each an integer, in ascending order; each is
\* non-negative when the file before the call was missing, was discarded as
\* unparseable, or held no negative integer.
C6_FileBoundedSorted ==
    (pc = "score" /\ last_write = "ok") =>
        /\ Len(file.lines) <= TOP_SCORES
        /\ \A i \in 1..Len(file.lines) : RefCanonical(file.lines[i])
        /\ IsAscending(HeldIntegers(file))
        /\ (\/ ~prior_file.exists
            \/ Corrupt(prior_file)
            \/ \A i \in 1..Len(HeldIntegers(prior_file)) : HeldIntegers(prior_file)[i] >= 0)
           => \A i \in 1..Len(file.lines) : RefValue(file.lines[i]) >= 0

C6_Witness ==
    /\ pc = "score" /\ calls >= 2 /\ last_write = "ok"
    /\ Len(prior_file.lines) = TOP_SCORES
    /\ Len(file.lines) = TOP_SCORES
    /\ HeldIntegers(file) # HeldIntegers(prior_file)

\* C7: when the file is missing, or holds a non-blank line that is no
\* integer, highscore(s) raises nothing and returns exactly [s]; after a
\* successful write the file holds the single line s, whatever parseable
\* lines it held before.
C7_CorruptFileStartsEmpty ==
    (pc \in {"score", "raised"} /\ calls >= 1
        /\ (~prior_file.exists \/ Corrupt(prior_file))) =>
        /\ pc # "raised"
        /\ high_scores = <<score>>
        /\ (last_write = "ok" => FileHolds(file, <<score>>))

C7_Witness ==
    /\ pc = "score" /\ calls >= 1 /\ last_write = "ok"
    /\ Corrupt(prior_file)
    /\ \E i \in 1..Len(prior_file.lines) : RefNumeral(prior_file.lines[i])
    /\ high_scores = <<score>>

\* the scores highscore starts from: those the file holds, or none when the
\* file is missing or unparseable
RefPrior(f) == IF HoldsConvertible(f) THEN HeldIntegers(f) ELSE <<>>

\* C8: when the rewrite of the score file fails, highscore does not raise:
\* it warns and returns the list it would have returned on success (the 10
\* smallest of the prior scores and s, ascending), and play_game goes on to
\* the end credits and the replay prompt.
C8_WriteFailureHandled ==
    (last_write \in {"open_failed", "write_failed"}) =>
        /\ pc # "raised"
        /\ warned
        /\ SmallestOf(high_scores, Append(RefPrior(prior_file), score))
        /\ credits # None
        /\ credits[1].high_scores = high_scores
        /\ (pc = "replay" => credits[1].attempts = attempts)

\* a failed write that left a cut line in the file
C8_Witness ==
    /\ pc = "replay"
    /\ last_write = "write_failed"
    /\ warned
    /\ Len(high_scores) >= 2
    /\ file # prior_file
    /\ \E i \in 1..Len(file.lines) : ~Contains(score_lines(high_scores), file.lines[i])
    /\ credits[1].high_scores = high_scores

\* C9: get_user_input returns only an input that, once trimmed, consists
\* solely of the characters '0'-'9', has exactly NUMBER_LENGTH characters
\* and does not start with '0'.
C9_OnlyDecimalGuessesReturned ==
    (pc = "returned") =>
        /\ Len(user_number) = NUMBER_LENGTH
        /\ \A i \in 1..Len(user_number) : user_number[i] \in AsciiDigits
        /\ user_number[1] # "0"

\* C10: in every round the guess that equals the secret generated at the
\* start of the round ends the round and no other guess does, the secret
\* being left as generated by every evaluation; the attempt count shown at
\* the end is the number of guesses evaluated in the round, and it starts
\* again from 0 in a new round.
C10_RoundEndsAtFirstMatch ==
    [][/\ (pc = "guess" /\ evaluated' = evaluated + 1) =>
              /\ (pc' \in {"replay", "raised"}) <=> (arg_guess' = arg_secret)
              /\ generated_number' = arg_secret
              /\ attempts' = evaluated'
              /\ (pc' = "replay" => credits'[1].attempts = evaluated')
       /\ (pc = "replay" /\ pc' = "guess") => (attempts' = 0 /\ evaluated' = 0)]_vars

C10_Witness ==
    /\ pc = "replay"
    /\ calls = 2
    /\ attempts = 2
    /\ arg_guess = arg_secret
    /\ credits[1].attempts = 2

====
